---------------------------- MODULE Spec2Model ----------------------------
(***************************************************************************)
(* String Analyzer Service (src/main.go): an HTTP service that analyses    *)
(* strings, stores each analysed string under its SHA-256 digest in one    *)
(* process-wide map, and lists, filters, looks up and deletes them.        *)
(*                                                                         *)
(* The server runs one goroutine per request (gin / net/http), and the     *)
(* handlers touch the map `stringStore` without any lock.  A handler is    *)
(* therefore modelled as a sequence of steps, one per access to the shared *)
(* map, and the steps of different requests interleave.                    *)
(*                                                                         *)
(* Strings are TLA+ strings (sequences of characters); the sample values   *)
(* are ASCII, so one character is one byte and one code point.             *)
(***************************************************************************)
EXTENDS Integers, Sequences, FiniteSets, TLC

VARIABLES
    store,      \* stringStore: digest -> *AnalyzedString
    now,        \* the wall clock read by time.Now().UTC()
    pc,         \* per request goroutine: the handler step it is at
    local,      \* per request goroutine: the handler's local variables
    response,   \* per request goroutine: what c.JSON wrote
    inserted,   \* history: digests of the present entries, oldest insert first
    crashed     \* the Go runtime ended the process ("fatal error: concurrent map ...")

vars == <<store, now, pc, local, response, inserted, crashed>>

-----------------------------------------------------------------------------
(* Bounds and input sets *)

\* The wall clock takes the values 0..MaxTime.
MaxTime == 2

\* A translator query is made of at most MaxTokens phrases of Vocabulary.
MaxTokens == 2

\* The longest string given to the analyzer on its own.
MaxLen == 4

\* The request goroutines that may be in flight together.
Procs == {"p1", "p2"}

\* The strings clients submit.
Values == {"Level", "hello world"}


\* A string result that is absent (no match).
Nil == "nil"

\* A pointer field (*bool, *int, *string): NilPtr, or Ptr(v) pointing at v.
NilPtr == <<>>

Ptr(v) == <<v>>

Deref(p) == p[1]

-----------------------------------------------------------------------------
(* Characters and strings *)

UpperChars == "ABCDEFGHIJKLMNOPQRSTUVWXYZ"

LowerChars == "abcdefghijklmnopqrstuvwxyz"

Digits == "0123456789"

\* The i-th character of s, as a one-character string.
CharAt(s, i) == SubSeq(s, i, i)

\* The position of character c in s, 0 when absent.
IndexOf(c, s) ==
    LET hits == {i \in 1..Len(s) : CharAt(s, i) = c}
    IN  IF hits = {} THEN 0 ELSE CHOOSE i \in hits : \A j \in hits : i <= j

\* The characters of s, as a set.
CharsOf(s) == {CharAt(s, i) : i \in 1..Len(s)}

LowerLetters == CharsOf(LowerChars)

UpperLetters == CharsOf(UpperChars)

DigitChars == CharsOf(Digits)

\* The regexp class [a-z].
IsLowerLetter(c) == c \in LowerLetters

\* The regexp class \d.
IsDigit(c) == c \in DigitChars

\* unicode.ToLower on one character.
ToLowerChar(c) ==
    IF c \in UpperLetters THEN CharAt(LowerChars, IndexOf(c, UpperChars)) ELSE c

RECURSIVE ToLower(_)
\* strings.ToLower
ToLower(s) ==
    IF s = "" THEN "" ELSE ToLowerChar(CharAt(s, 1)) \o ToLower(Tail(s))

\* The class \s of Go's regexp (RE2): [\t\n\f\r ].
IsRegexpSpace(c) == c \in {" ", "\t", "\n", "\f", "\r"}

\* unicode.IsSpace, on the characters the model's strings can hold.
IsUnicodeSpace(c) == c \in {" ", "\t", "\n", "\f", "\r"}

\* The characters countUniqueCharacters and buildCharacterFrequencyMap skip.
IsSkippedChar(c) == c \in {" ", "\t", "\n"}

RECURSIVE RemoveRegexpSpace(_)
\* regexp.MustCompile(`\s+`).ReplaceAllString(s, "")
RemoveRegexpSpace(s) ==
    IF s = "" THEN ""
    ELSE IF IsRegexpSpace(CharAt(s, 1)) THEN RemoveRegexpSpace(Tail(s))
    ELSE CharAt(s, 1) \o RemoveRegexpSpace(Tail(s))

\* strings.Contains
Contains(s, sub) ==
    \E i \in 1..(Len(s) - Len(sub) + 1) : SubSeq(s, i, i + Len(sub) - 1) = sub

\* Whether sub stands in s at position i.
HasAt(s, i, sub) ==
    /\ i >= 1
    /\ i + Len(sub) - 1 <= Len(s)
    /\ SubSeq(s, i, i + Len(sub) - 1) = sub

-----------------------------------------------------------------------------
(* Analyzer *)

\* utf8.RuneCountInString
RuneCount(s) == Len(s)

RECURSIVE PalindromeLoop(_, _, _)
\* The two-index loop of checkPalindrome.
PalindromeLoop(runes, i, j) ==
    IF i < j
    THEN IF CharAt(runes, i) # CharAt(runes, j)
         THEN FALSE
         ELSE PalindromeLoop(runes, i + 1, j - 1)
    ELSE TRUE

checkPalindrome(s) ==
    LET cleaned == ToLower(RemoveRegexpSpace(s))
    IN  PalindromeLoop(cleaned, 1, Len(cleaned))

\* The keys of the frequency map / the set of countUniqueCharacters.
CharSet(s) ==
    LET l == ToLower(s)
    IN  {CharAt(l, i) : i \in {k \in 1..Len(l) : ~IsSkippedChar(CharAt(l, k))}}

countUniqueCharacters(s) == Cardinality(CharSet(s))

\* strings.Fields: one word starts at every non-space that follows a space or
\* the start of the string.
countWords(s) ==
    Cardinality({i \in 1..Len(s) :
        /\ ~IsUnicodeSpace(CharAt(s, i))
        /\ (i = 1 \/ IsUnicodeSpace(CharAt(s, i - 1)))})

\* sha256.Sum256 rendered by %x: the digests of the sample values.
calculateSHA256(s) ==
    CASE s = "radar" -> "ff2e963ff6d0c33aae94a7f823b6e2bf7358004063f4275ba525539cb6ec6734"
      [] s = "hello world" -> "b94d27b9934d3e08a52e52d7da7dabfac484efe37a5380ee9088f7ace2efcde9"
      [] s = "Level" -> "1709305c9fa966d14f56f0da3c3614bbc10adcf53d72f90341bb96d24afcfca3"
      [] s = "level" -> "0081779c287d567d9ca622f4c0cc2ede819b0cc7f286a5f01d8c3c0178191ad6"
      [] s = "Go  go" -> "29a5b67e022f7cc8504990bd36e8e042fc4d509643bc00250b91f6671d0d58c8"
      [] s = "ab\tBA" -> "8717da5f572222eca779770ae27820408f260fef8cce7127ccc248050caf8bcd"

buildCharacterFrequencyMap(s) ==
    LET l == ToLower(s)
    IN  [c \in CharSet(s) |-> Cardinality({i \in 1..Len(l) : CharAt(l, i) = c})]

analyzeString(value) ==
    [Length                |-> RuneCount(value),
     IsPalindrome          |-> checkPalindrome(value),
     UniqueCharacters      |-> countUniqueCharacters(value),
     WordCount             |-> countWords(value),
     SHA256Hash            |-> calculateSHA256(value),
     CharacterFrequencyMap |-> buildCharacterFrequencyMap(value)]

-----------------------------------------------------------------------------
(* Filter engine *)

\* FilterParams{}: every field is a pointer, nil when the parameter is absent.
NoParams ==
    [IsPalindrome |-> NilPtr, MinLength |-> NilPtr, MaxLength |-> NilPtr,
     WordCount |-> NilPtr, ContainsCharacter |-> NilPtr]

\* A filter engine whose minimum length is exclusive.
matchesFilters_Strict(analyzed, params) ==
    /\ params.IsPalindrome # NilPtr
          => analyzed.Properties.IsPalindrome = Deref(params.IsPalindrome)
    /\ params.MinLength # NilPtr
          => analyzed.Properties.Length > Deref(params.MinLength)
    /\ params.MaxLength # NilPtr
          => analyzed.Properties.Length <= Deref(params.MaxLength)
    /\ params.WordCount # NilPtr
          => analyzed.Properties.WordCount = Deref(params.WordCount)
    /\ params.ContainsCharacter # NilPtr
          => ToLower(Deref(params.ContainsCharacter))
                 \in DOMAIN analyzed.Properties.CharacterFrequencyMap

\* matchesFilters: each present filter that fails returns false at once.
matchesFilters(analyzed, params) ==
    IF /\ params.IsPalindrome # NilPtr
       /\ analyzed.Properties.IsPalindrome # Deref(params.IsPalindrome)
    THEN FALSE
    ELSE IF /\ params.MinLength # NilPtr
            /\ analyzed.Properties.Length < Deref(params.MinLength)
    THEN FALSE
    ELSE IF /\ params.MaxLength # NilPtr
            /\ analyzed.Properties.Length > Deref(params.MaxLength)
    THEN FALSE
    ELSE IF /\ params.WordCount # NilPtr
            /\ analyzed.Properties.WordCount # Deref(params.WordCount)
    THEN FALSE
    ELSE IF /\ params.ContainsCharacter # NilPtr
            /\ ToLower(Deref(params.ContainsCharacter))
                   \notin DOMAIN analyzed.Properties.CharacterFrequencyMap
    THEN FALSE
    ELSE TRUE

-----------------------------------------------------------------------------
(* Query translator *)

\* map[string]interface{}: a function from the keys that are set (a nil map has none).
EmptyMap == [k \in {} |-> Nil]

\* filters[k] = v
Put(m, k, v) == [x \in (DOMAIN m) \cup {k} |-> IF x = k THEN v ELSE m[x]]

RECURSIVE DigitRun(_, _)
\* The longest run of digits of s that starts at position i: what (\d+) captures.
DigitRun(s, i) ==
    IF i <= Len(s) /\ IsDigit(CharAt(s, i))
    THEN CharAt(s, i) \o DigitRun(s, i + 1)
    ELSE ""

\* regexp.FindStringSubmatch for `<phrase>(\d+)`: the capture of the leftmost
\* match, Nil when there is none.
FindNumberAfter(s, phrase) ==
    LET starts == {i \in 1..Len(s) :
                      /\ HasAt(s, i, phrase)
                      /\ DigitRun(s, i + Len(phrase)) # ""}
    IN  IF starts = {} THEN Nil
        ELSE LET first == CHOOSE i \in starts : \A j \in starts : i <= j
             IN  DigitRun(s, first + Len(phrase))

RECURSIVE StripZeros(_)
StripZeros(d) ==
    IF Len(d) > 1 /\ CharAt(d, 1) = "0" THEN StripZeros(Tail(d)) ELSE d

RECURSIVE DigitsLeq(_, _)
\* a <= b for two digit strings of the same length.
DigitsLeq(a, b) ==
    IF a = "" THEN TRUE
    ELSE LET x == IndexOf(CharAt(a, 1), Digits)
             y == IndexOf(CharAt(b, 1), Digits)
         IN  IF x < y THEN TRUE
             ELSE IF x > y THEN FALSE
             ELSE DigitsLeq(Tail(a), Tail(b))

\* The largest int of a 64-bit build, in decimal.
MaxInt64Digits == "9223372036854775807"

\* Whether strconv.ParseInt(d, 10, 64) succeeds on the digit string d.
FitsInt64(d) ==
    LET z == StripZeros(d)
    IN  \/ Len(z) < Len(MaxInt64Digits)
        \/ Len(z) = Len(MaxInt64Digits) /\ DigitsLeq(z, MaxInt64Digits)

RECURSIVE DecimalValue(_, _)
DecimalValue(d, acc) ==
    IF d = "" THEN acc
    ELSE DecimalValue(Tail(d), 10 * acc + (IndexOf(CharAt(d, 1), Digits) - 1))

\* fmt.Sscanf(d, "%d", &n) on a variable n that holds 0: n afterwards.  When the
\* number does not fit an int, Sscanf returns an error (ignored by the caller)
\* and leaves n alone.
SscanfInt(d) == IF FitsInt64(d) THEN DecimalValue(d, 0) ELSE 0

\* The capture of `'?([a-z])'?` tried at position k: Nil when it does not match.
\* The quote is taken when it is there; without a letter behind it the regexp
\* backtracks to "no quote", where the letter class meets the quote and fails.
LetterAt(s, k) ==
    IF HasAt(s, k, "'") /\ k + 1 <= Len(s) /\ IsLowerLetter(CharAt(s, k + 1))
    THEN CharAt(s, k + 1)
    ELSE IF k <= Len(s) /\ IsLowerLetter(CharAt(s, k))
    THEN CharAt(s, k)
    ELSE Nil

\* `(?:the |letter |character )?'?([a-z])'?` tried at position j: the optional
\* group is greedy, its alternatives are tried in order, and the empty choice last.
CharTailAt(s, j) ==
    IF HasAt(s, j, "the ") /\ LetterAt(s, j + 4) # Nil THEN LetterAt(s, j + 4)
    ELSE IF HasAt(s, j, "letter ") /\ LetterAt(s, j + 7) # Nil THEN LetterAt(s, j + 7)
    ELSE IF HasAt(s, j, "character ") /\ LetterAt(s, j + 10) # Nil THEN LetterAt(s, j + 10)
    ELSE LetterAt(s, j)

\* `(?:contain|with) ...` tried at position i.
CharPatternAt(s, i) ==
    IF HasAt(s, i, "contain ") THEN CharTailAt(s, i + 8)
    ELSE IF HasAt(s, i, "with ") THEN CharTailAt(s, i + 5)
    ELSE Nil

\* charPattern.FindStringSubmatch(s)[1]: the capture of the leftmost match, Nil
\* when the pattern matches nowhere.
FindCharPattern(s) ==
    LET starts == {i \in 1..Len(s) : CharPatternAt(s, i) # Nil}
    IN  IF starts = {} THEN Nil
        ELSE CharPatternAt(s, CHOOSE i \in starts : \A j \in starts : i <= j)

\* A word-count rule in which each matching phrase overwrites the one before.
WordCountRule_LastWins(lowerQuery, filters) ==
    LET a == IF Contains(lowerQuery, "single word")
             THEN Put(filters, "word_count", 1) ELSE filters
        b == IF Contains(lowerQuery, "two word") \/ Contains(lowerQuery, "2 word")
             THEN Put(a, "word_count", 2) ELSE a
    IN  IF Contains(lowerQuery, "three word") \/ Contains(lowerQuery, "3 word")
        THEN Put(b, "word_count", 3) ELSE b

\* The word count chain (if / else if / else if).
WordCountRule(lowerQuery, filters) ==
    IF Contains(lowerQuery, "single word")
    THEN Put(filters, "word_count", 1)
    ELSE IF Contains(lowerQuery, "two word") \/ Contains(lowerQuery, "2 word")
    THEN Put(filters, "word_count", 2)
    ELSE IF Contains(lowerQuery, "three word") \/ Contains(lowerQuery, "3 word")
    THEN Put(filters, "word_count", 3)
    ELSE filters

PalindromeRule(lowerQuery, filters) ==
    IF Contains(lowerQuery, "palindrom")
    THEN Put(filters, "is_palindrome", TRUE)
    ELSE filters

LongerRule(lowerQuery, filters) ==
    LET m == FindNumberAfter(lowerQuery, "longer than ")
    IN  IF m # Nil THEN Put(filters, "min_length", SscanfInt(m) + 1) ELSE filters

ShorterRule(lowerQuery, filters) ==
    LET m == FindNumberAfter(lowerQuery, "shorter than ")
    IN  IF m # Nil THEN Put(filters, "max_length", SscanfInt(m) - 1) ELSE filters

CharRule(lowerQuery, filters) ==
    LET m == FindCharPattern(lowerQuery)
    IN  IF m # Nil THEN Put(filters, "contains_character", m) ELSE filters

\* The vowel chain (if / else if).
VowelRule(lowerQuery, filters) ==
    IF Contains(lowerQuery, "first vowel")
    THEN Put(filters, "contains_character", "a")
    ELSE IF Contains(lowerQuery, "last vowel")
    THEN Put(filters, "contains_character", "u")
    ELSE filters

\* A translator that never fails.
ParseOutcome_NeverFails(filters) == [err |-> FALSE, filters |-> filters]

\* What parseNaturalLanguageQuery returns for a filters map: (nil, error) when
\* the map is empty.
ParseOutcome(filters) ==
    IF DOMAIN filters = {}
    THEN [err |-> TRUE, filters |-> EmptyMap]
    ELSE [err |-> FALSE, filters |-> filters]

parseNaturalLanguageQuery(query) ==
    LET lowerQuery == ToLower(query)
        f1 == WordCountRule(lowerQuery, EmptyMap)
        f2 == PalindromeRule(lowerQuery, f1)
        f3 == LongerRule(lowerQuery, f2)
        f4 == ShorterRule(lowerQuery, f3)
        f5 == CharRule(lowerQuery, f4)
        f6 == VowelRule(lowerQuery, f5)
    IN  ParseOutcome(f6)

\* v, ok := parsed[k].(T); if ok { field = &v }
Lookup(parsed, k) == IF k \in DOMAIN parsed THEN Ptr(parsed[k]) ELSE NilPtr

convertParsedFiltersToParams(parsed) ==
    [IsPalindrome      |-> Lookup(parsed, "is_palindrome"),
     MinLength         |-> Lookup(parsed, "min_length"),
     MaxLength         |-> Lookup(parsed, "max_length"),
     WordCount         |-> Lookup(parsed, "word_count"),
     ContainsCharacter |-> Lookup(parsed, "contains_character")]

-----------------------------------------------------------------------------
(* Requests *)

\* The query strings of GET /strings: bound FilterParams values.
ListParams ==
    { NoParams,
      [NoParams EXCEPT !.IsPalindrome = Ptr(TRUE), !.WordCount = Ptr(1)],
      [NoParams EXCEPT !.MinLength = Ptr(5), !.ContainsCharacter = Ptr("O")] }

\* The queries sent to GET /strings/filter-by-natural-language.
ServedQueries ==
    { "single word palindromes",
      "strings containing letter z",
      "Strings longer than 5" }

\* The handler's local variables before a request is bound.
NoLocal ==
    [op |-> "", value |-> "", hash |-> "", query |-> "", parsed |-> EmptyMap,
     params |-> NoParams, seen |-> {}, results |-> {}, raced |-> FALSE]

\* Nothing written to the client yet.
NoResponse == [status |-> 0, error |-> "", data |-> <<>>]

\* c.JSON(status, gin.H{"error": ...})
ErrorResponse(status, error) == [status |-> status, error |-> error, data |-> <<>>]

\* c.JSON(status, record) and c.JSON(status, FilterResponse{Data: ...})
DataResponse(status, data) == [status |-> status, error |-> "", data |-> data]

\* The steps from which a handler writes stringStore next.
WritePcs == {"create_store", "delete_do"}

\* The steps from which a handler reads or writes stringStore next; an idle
\* goroutine is about to take a request, and every handler goes to the map.
AccessPcs == {"idle", "create_store", "iterate", "delete_do"}

\* A delete that empties the map.
Remove_All(m, k) == EmptyMap

\* delete(m, k)
Remove(m, k) == [x \in (DOMAIN m) \ {k} |-> m[x]]

\* A range loop over stringStore that is under way sees the map written.
MarkRaced(p) ==
    [q \in Procs |->
        IF q # p /\ pc[q] = "iterate"
        THEN [local[q] EXCEPT !.raced = TRUE]
        ELSE local[q]]

\* time.Time.Before on two UTC wall-clock readings.
Before(t, u) == t < u

\* What sort.Slice(results, less) may leave: every arrangement of the collected
\* records in which no record is Before one that precedes it.  The order in which
\* the range loop met the records is unspecified, and sort.Slice is not stable.
SortedOrders(results) ==
    LET n == Cardinality(results)
    IN  {s \in [1..n -> results] :
            /\ \A i, j \in 1..n : i # j => s[i] # s[j]
            /\ \A i, j \in 1..n : i < j => ~Before(s[j].CreatedAt, s[i].CreatedAt)}

-----------------------------------------------------------------------------
(* Handlers *)

Init ==
    /\ store = EmptyMap
    /\ now = 0
    /\ pc = [p \in Procs |-> "idle"]
    /\ local = [p \in Procs |-> NoLocal]
    /\ response = [p \in Procs |-> NoResponse]
    /\ inserted = <<>>
    /\ crashed = FALSE

\* The clock advances.
Tick ==
    /\ ~crashed
    /\ now < MaxTime
    /\ now' = now + 1
    /\ UNCHANGED <<store, pc, local, response, inserted, crashed>>

\* A lookup that never finds the key.
Exists_Never(hash) == FALSE

\* _, exists := stringStore[hash]
Exists(hash) == hash \in DOMAIN store

\* createString up to the map lookup: bind the body, analyse the value, and
\* if _, exists := stringStore[hash]; exists { 409 }
CreateString(p) ==
    /\ ~crashed
    /\ pc[p] = "idle"
    /\ \E v \in Values \cup {""} :
          IF v = ""
          THEN \* binding:"required" rejects a missing or empty value
               /\ response' = [response EXCEPT ![p] = ErrorResponse(400, "bind")]
               /\ pc' = [pc EXCEPT ![p] = "done"]
               /\ local' = local
          ELSE /\ local' = [local EXCEPT ![p] =
                               [NoLocal EXCEPT !.op = "create", !.value = v,
                                               !.hash = analyzeString(v).SHA256Hash]]
               /\ IF Exists(analyzeString(v).SHA256Hash)
                  THEN /\ response' = [response EXCEPT ![p] = ErrorResponse(409, "exists")]
                       /\ pc' = [pc EXCEPT ![p] = "done"]
                  ELSE /\ pc' = [pc EXCEPT ![p] = "create_store"]
                       /\ response' = response
    /\ UNCHANGED <<store, now, inserted, crashed>>

\* The record createString builds.
NewRecord(value, createdAt) ==
    [ID         |-> analyzeString(value).SHA256Hash,
     Value      |-> value,
     Properties |-> analyzeString(value),
     CreatedAt  |-> createdAt]

\* createString: stringStore[hash] = analyzed; 201.
CreateStore(p) ==
    /\ ~crashed
    /\ pc[p] = "create_store"
    /\ LET analyzed == NewRecord(local[p].value, now)
       IN  /\ store' = Put(store, local[p].hash, analyzed)
           /\ response' = [response EXCEPT ![p] = DataResponse(201, <<analyzed>>)]
    /\ inserted' = Append(SelectSeq(inserted, LAMBDA h : h # local[p].hash), local[p].hash)
    /\ local' = MarkRaced(p)
    /\ pc' = [pc EXCEPT ![p] = "done"]
    /\ UNCHANGED <<now, crashed>>

\* A key taken from the case-folded path value.
LookupKey_Lower(value) == calculateSHA256(ToLower(value))

\* The key getString and deleteString look a path value up under.
LookupKey(value) == calculateSHA256(value)

\* getString: analyzed, exists := stringStore[hash]; 404 or 200.
GetString(p) ==
    /\ ~crashed
    /\ pc[p] = "idle"
    /\ \E v \in Values :
          LET hash == LookupKey(v)
          IN  /\ response' = [response EXCEPT ![p] =
                    IF Exists(hash)
                    THEN DataResponse(200, <<store[hash]>>)
                    ELSE ErrorResponse(404, "absent")]
              /\ local' = [local EXCEPT ![p] =
                    [NoLocal EXCEPT !.op = "get", !.value = v, !.hash = hash]]
    /\ pc' = [pc EXCEPT ![p] = "done"]
    /\ UNCHANGED <<store, now, inserted, crashed>>

\* getAllStrings up to the range loop: bind the query parameters.
GetAllStrings(p, queryStrings) ==
    /\ ~crashed
    /\ pc[p] = "idle"
    /\ \/ \* ShouldBindQuery fails on a malformed value (such as min_length=abc)
          /\ response' = [response EXCEPT ![p] = ErrorResponse(400, "bind")]
          /\ pc' = [pc EXCEPT ![p] = "done"]
          /\ local' = local
       \/ \E q \in queryStrings :
             /\ local' = [local EXCEPT ![p] =
                              [NoLocal EXCEPT !.op = "list", !.params = q]]
             /\ pc' = [pc EXCEPT ![p] = "iterate"]
             /\ response' = response
    /\ UNCHANGED <<store, now, inserted, crashed>>

\* filterByNaturalLanguage up to the range loop: translate the query.
FilterByNaturalLanguage(p, queries) ==
    /\ ~crashed
    /\ pc[p] = "idle"
    /\ \E query \in queries \cup {""} :
          LET out == parseNaturalLanguageQuery(query)
          IN  IF query = ""
              THEN /\ response' = [response EXCEPT ![p] = ErrorResponse(400, "missing")]
                   /\ pc' = [pc EXCEPT ![p] = "done"]
                   /\ local' = local
              ELSE IF out.err
              THEN /\ response' = [response EXCEPT ![p] = ErrorResponse(400, "parse")]
                   /\ pc' = [pc EXCEPT ![p] = "done"]
                   /\ local' = [local EXCEPT ![p] =
                          [NoLocal EXCEPT !.op = "nl", !.query = query]]
              ELSE /\ local' = [local EXCEPT ![p] =
                          [NoLocal EXCEPT
                              !.op = "nl",
                              !.query = query,
                              !.parsed = out.filters,
                              !.params = convertParsedFiltersToParams(out.filters)]]
                   /\ pc' = [pc EXCEPT ![p] = "iterate"]
                   /\ response' = response
    /\ UNCHANGED <<store, now, inserted, crashed>>

\* One turn of `for _, analyzed := range stringStore`: an entry not met yet.
Iterate(p) ==
    /\ ~crashed
    /\ pc[p] = "iterate"
    /\ \E k \in (DOMAIN store) \ local[p].seen :
          local' = [local EXCEPT
              ![p].seen = @ \cup {k},
              ![p].results = IF matchesFilters(store[k], local[p].params)
                             THEN @ \cup {store[k]}
                             ELSE @]
    /\ UNCHANGED <<store, now, pc, response, inserted, crashed>>

\* The range loop ends, the results are sorted and sent.  A loop over a map that
\* was not written meets every entry; one that raced with a write may end early.
IterateDone(p) ==
    /\ ~crashed
    /\ pc[p] = "iterate"
    /\ local[p].raced \/ (DOMAIN store) \subseteq local[p].seen
    /\ \E sorted \in SortedOrders(local[p].results) :
          response' = [response EXCEPT ![p] = DataResponse(200, sorted)]
    /\ local' = [local EXCEPT ![p].seen = {}, ![p].results = {}]
    /\ pc' = [pc EXCEPT ![p] = "done"]
    /\ UNCHANGED <<store, now, inserted, crashed>>

\* deleteString up to the delete: look the digest of the value up, 404 when absent.
DeleteString(p) ==
    /\ ~crashed
    /\ pc[p] = "idle"
    /\ \E v \in Values :
          /\ local' = [local EXCEPT ![p] =
                [NoLocal EXCEPT !.op = "delete", !.value = v, !.hash = LookupKey(v)]]
          /\ IF ~Exists(LookupKey(v))
             THEN /\ response' = [response EXCEPT ![p] = ErrorResponse(404, "absent")]
                  /\ pc' = [pc EXCEPT ![p] = "done"]
             ELSE /\ pc' = [pc EXCEPT ![p] = "delete_do"]
                  /\ response' = response
    /\ UNCHANGED <<store, now, inserted, crashed>>

\* deleteString: delete(stringStore, hash); 204.
DeleteDo(p) ==
    /\ ~crashed
    /\ pc[p] = "delete_do"
    /\ store' = Remove(store, local[p].hash)
    /\ inserted' = SelectSeq(inserted, LAMBDA h : h # local[p].hash)
    /\ response' = [response EXCEPT ![p] = DataResponse(204, <<>>)]
    /\ local' = MarkRaced(p)
    /\ pc' = [pc EXCEPT ![p] = "done"]
    /\ UNCHANGED <<now, crashed>>

\* The handler returns; the goroutine is free for the next request.
Finish(p) ==
    /\ ~crashed
    /\ pc[p] = "done"
    /\ pc' = [pc EXCEPT ![p] = "idle"]
    /\ local' = [local EXCEPT ![p] = NoLocal]
    /\ response' = [response EXCEPT ![p] = NoResponse]
    /\ UNCHANGED <<store, now, inserted, crashed>>

\* Two goroutines are at the unsynchronised map together, one of them to write
\* it: the runtime may detect it and end the process.
RaceFatal ==
    /\ ~crashed
    /\ \E p, q \in Procs : p # q /\ pc[p] \in WritePcs /\ pc[q] \in AccessPcs
    /\ crashed' = TRUE
    /\ UNCHANGED <<store, now, pc, local, response, inserted>>

Next ==
    \/ Tick
    \/ RaceFatal
    \/ \E p \in Procs :
          \/ CreateString(p)
          \/ CreateStore(p)
          \/ GetString(p)
          \/ GetAllStrings(p, ListParams)
          \/ FilterByNaturalLanguage(p, ServedQueries)
          \/ Iterate(p)
          \/ IterateDone(p)
          \/ DeleteString(p)
          \/ DeleteDo(p)
          \/ Finish(p)

\* The server under concurrent requests.
Spec == Init /\ [][Next]_vars

\* Every other goroutine is idle.
Alone(p) == \A q \in Procs \ {p} : pc[q] = "idle"

SerialNext ==
    \/ Tick
    \/ \E p \in Procs :
          \/ Alone(p) /\ CreateString(p)
          \/ Alone(p) /\ CreateStore(p)
          \/ Alone(p) /\ GetString(p)
          \/ Alone(p) /\ GetAllStrings(p, ListParams)
          \/ Alone(p) /\ FilterByNaturalLanguage(p, ServedQueries)
          \/ Alone(p) /\ Iterate(p)
          \/ Alone(p) /\ IterateDone(p)
          \/ Alone(p) /\ DeleteString(p)
          \/ Alone(p) /\ DeleteDo(p)
          \/ Alone(p) /\ Finish(p)

\* The server when requests arrive one after the other.
SerialSpec == Init /\ [][SerialNext]_vars

-----------------------------------------------------------------------------
(* The read-only endpoints on a store that earlier inserts filled *)

\* The store after the values of the sequence vals were inserted one clock tick
\* apart, the first at time 0.
StoreAfter(vals) ==
    [h \in {calculateSHA256(vals[i]) : i \in 1..Len(vals)} |->
        LET i == CHOOSE k \in 1..Len(vals) : calculateSHA256(vals[k]) = h
        IN  NewRecord(vals[i], i - 1)]

InitAfter(vals) ==
    /\ store = StoreAfter(vals)
    /\ now = Len(vals) - 1
    /\ pc = [p \in Procs |-> "idle"]
    /\ local = [p \in Procs |-> NoLocal]
    /\ response = [p \in Procs |-> NoResponse]
    /\ inserted = [i \in 1..Len(vals) |-> calculateSHA256(vals[i])]
    /\ crashed = FALSE

\* The phrases translator queries are made of.
Vocabulary ==
    << "single word", "Two Word", "3 word", "three words", "palindromic",
       "longer than 10", "shorter than 20", "containing letter z", "contains z",
       "contain the 'q'", "with letter k", "first vowel", "last vowel",
       "gibberish xyzzy", "strings", "with",
       "longer than 99999999999999999999" >>

RECURSIVE QueriesOf(_)
\* The queries of exactly n phrases, joined by single spaces.
QueriesOf(n) ==
    IF n = 1 THEN {Vocabulary[i] : i \in 1..Len(Vocabulary)}
    ELSE {q \o " " \o Vocabulary[i] : q \in QueriesOf(n - 1), i \in 1..Len(Vocabulary)}

Queries == UNION {QueriesOf(n) : n \in 1..MaxTokens}

TranslateInit == InitAfter(<<"Level", "hello world">>)

TranslateNext ==
    \E p \in Procs :
        \/ Alone(p) /\ FilterByNaturalLanguage(p, Queries)
        \/ Alone(p) /\ Iterate(p)
        \/ Alone(p) /\ IterateDone(p)
        \/ Alone(p) /\ Finish(p)

\* The natural-language endpoint, serially, on every query of Queries.
TranslateSpec == TranslateInit /\ [][TranslateNext]_vars

\* Every FilterParams value over a few choices per field.
FilterSpace ==
    [IsPalindrome      : {NilPtr, Ptr(TRUE), Ptr(FALSE)},
     MinLength         : {NilPtr, Ptr(5), Ptr(6)},
     MaxLength         : {NilPtr, Ptr(5), Ptr(10)},
     WordCount         : {NilPtr, Ptr(1), Ptr(2)},
     ContainsCharacter : {NilPtr, Ptr("a"), Ptr("L"), Ptr("go")}]

FilterInit == InitAfter(<<"radar", "hello world", "Level", "Go  go", "ab\tBA">>)

FilterNext ==
    \E p \in Procs :
        \/ Alone(p) /\ GetAllStrings(p, FilterSpace)
        \/ Alone(p) /\ Iterate(p)
        \/ Alone(p) /\ IterateDone(p)
        \/ Alone(p) /\ Finish(p)

\* The structured listing, serially, on every filter set of FilterSpace.
FilterSpec == FilterInit /\ [][FilterNext]_vars

-----------------------------------------------------------------------------
(* The analyzer on its own *)

\* The vertical tab, U+000B: the one character between the quotes.
VerticalTab == ""

\* The characters analyzed strings are made of.
AnalyzedChars == <<"a", "b", "B", " ", "\t", VerticalTab>>

RECURSIVE StringsOf(_)
\* The strings of exactly n characters of AnalyzedChars.
StringsOf(n) ==
    IF n = 0 THEN {""}
    ELSE {t \o AnalyzedChars[i] : t \in StringsOf(n - 1), i \in 1..Len(AnalyzedChars)}

AnalyzedStrings == UNION {StringsOf(n) : n \in 0..MaxLen}

\* analyzeString, as far as isPalindrome: isPalindrome := checkPalindrome(value).
AnalyzePalindrome(p, strings) ==
    /\ ~crashed
    /\ pc[p] = "idle"
    /\ \E value \in strings :
          /\ local' = [local EXCEPT ![p] =
                [NoLocal EXCEPT !.op = "analyze", !.value = value]]
          /\ response' = [response EXCEPT ![p] =
                DataResponse(200, <<[Value |-> value,
                                     IsPalindrome |-> checkPalindrome(value)]>>)]
    /\ pc' = [pc EXCEPT ![p] = "done"]
    /\ UNCHANGED <<store, now, inserted, crashed>>

AnalyzeNext ==
    \E p \in Procs :
        \/ Alone(p) /\ AnalyzePalindrome(p, AnalyzedStrings)
        \/ Alone(p) /\ Finish(p)

\* The analyzer applied to every string of AnalyzedStrings.
AnalyzeSpec == Init /\ [][AnalyzeNext]_vars

-----------------------------------------------------------------------------
(* Properties *)

\* The elements of a sequence.
Range(s) == {s[i] : i \in 1..Len(s)}

\* Goroutine p takes a request in this step.
Takes(p, op) == pc[p] = "idle" /\ pc'[p] # "idle" /\ local'[p].op = op

\* Goroutine p has answered a request of kind op.
Answered(p, op) == pc[p] = "done" /\ local[p].op = op

\* C1: a createString request for a value whose digest is a key of the store
\* is answered 409 at once, and the step changes neither the keys nor any stored
\* record (so the first record keeps its createdAt).
C1_DuplicateInsertRejected ==
    [][\A p \in Procs :
          (Takes(p, "create") /\ local'[p].hash \in DOMAIN store)
              => /\ pc'[p] = "done"
                 /\ response'[p].status = 409
                 /\ response'[p].data = <<>>
                 /\ store' = store
                 /\ inserted' = inserted]_vars

\* A duplicate insert was refused after the clock moved past the first insert.
C1_Witness ==
    \E p \in Procs :
        /\ Answered(p, "create")
        /\ response[p].status = 409
        /\ local[p].hash \in DOMAIN store
        /\ store[local[p].hash].CreatedAt < now

\* The steps at which an insert, a delete or an enumeration is inside its access
\* to the store: between the lookup and the write, or inside the range loop.
InStoreAccess(p) == pc[p] \in {"create_store", "delete_do", "iterate"}

\* C2: insert, delete and enumeration exclude each other on the store: no
\* insert or delete is inside its store access while another insert, delete or
\* enumeration is, and no range loop sees the map written while it runs.
C2_MutualExclusion ==
    /\ \A p, q \in Procs :
          (p # q /\ pc[p] \in WritePcs) => ~InStoreAccess(q)
    /\ \A p \in Procs : ~local[p].raced

\* The digests of the present entries that pass params, oldest insert first.
InsertionOrder(params) ==
    SelectSeq(inserted, LAMBDA h : matchesFilters(store[h], params))

\* The ids of a listing, in the order returned.
Ids(data) == [i \in 1..Len(data) |-> data[i].ID]

\* C3: a listing returns the present entries (that pass the filters) in the
\* order in which they were inserted, also when inserts got the same timestamp.
C3_EnumerationInInsertionOrder ==
    \A p \in Procs :
        ((Answered(p, "list") \/ Answered(p, "nl")) /\ response[p].status = 200)
            => Ids(response[p].data) = InsertionOrder(local[p].params)

\* C4: a getString request for a value that was inserted (201) and not deleted
\* since is answered 200 with the record of that value: its value is the
\* requested one and its id is the digest of it.
C4_RoundTrip ==
    [][\A p \in Procs :
          (Takes(p, "get") /\ calculateSHA256(local'[p].value) \in Range(inserted))
              => /\ response'[p].status = 200
                 /\ Len(response'[p].data) = 1
                 /\ response'[p].data[1].Value = local'[p].value
                 /\ response'[p].data[1].ID = calculateSHA256(local'[p].value)]_vars

\* A mixed-case value is read back while another value is stored as well and the
\* clock has moved since it was inserted.
C4_Witness ==
    \E p \in Procs :
        /\ Answered(p, "get")
        /\ response[p].status = 200
        /\ local[p].value = "Level"
        /\ response[p].data[1].CreatedAt < now
        /\ Len(inserted) = 2

\* C5: deleteString of a stored value removes that key and nothing else, after
\* which a getString of it is answered 404; deleteString of a value that is not
\* stored is answered 404 and leaves the store as it was.
C5_DeleteFrame ==
    [][\A p \in Procs :
          /\ Takes(p, "delete") =>
                /\ store' = store
                /\ IF local'[p].hash \in DOMAIN store
                   THEN pc'[p] = "delete_do"
                   ELSE pc'[p] = "done" /\ response'[p].status = 404
          /\ (pc[p] = "delete_do" /\ pc'[p] = "done") =>
                /\ response'[p].status = 204
                /\ DOMAIN store' = (DOMAIN store) \ {local[p].hash}
                /\ \A k \in DOMAIN store' : store'[k] = store[k]
          /\ (Takes(p, "get") /\ calculateSHA256(local'[p].value) \notin DOMAIN store) =>
                response'[p].status = 404]_vars

\* A delete was answered 204 and another record is still stored.
C5_Witness ==
    \E p \in Procs :
        /\ Answered(p, "delete")
        /\ response[p].status = 204
        /\ local[p].hash \notin DOMAIN store
        /\ DOMAIN store # {}

\* A stored record is under its id, which is the digest of its value, and
\* carries the properties of its value.
WellFormed(m) ==
    \A h \in DOMAIN m :
        /\ m[h].ID = h
        /\ h = calculateSHA256(m[h].Value)
        /\ m[h].Properties = analyzeString(m[h].Value)

\* C6: every stored record is under its id = digest(value); a record that is
\* stored before and after a step is the same record (value, properties and
\* createdAt as assigned at its insertion); a key appears only by the store
\* write of createString and disappears only by the delete of deleteString.
C6_RecordLifecycle ==
    [][/\ WellFormed(store')
       /\ \A h \in (DOMAIN store) \cap (DOMAIN store') : store'[h] = store[h]
       /\ \A h \in (DOMAIN store') \ (DOMAIN store) :
             \E p \in Procs : pc[p] = "create_store" /\ pc'[p] = "done" /\ local[p].hash = h
       /\ \A h \in (DOMAIN store) \ (DOMAIN store') :
             \E p \in Procs : pc[p] = "delete_do" /\ pc'[p] = "done" /\ local[p].hash = h]_vars

\* Every predicate that is present in the filter set f holds for the record r.
AllPresentHold(r, f) ==
    /\ f.IsPalindrome # NilPtr => r.Properties.IsPalindrome = Deref(f.IsPalindrome)
    /\ f.MinLength # NilPtr => r.Properties.Length >= Deref(f.MinLength)
    /\ f.MaxLength # NilPtr => r.Properties.Length <= Deref(f.MaxLength)
    /\ f.WordCount # NilPtr => r.Properties.WordCount = Deref(f.WordCount)
    /\ f.ContainsCharacter # NilPtr =>
          ToLower(Deref(f.ContainsCharacter)) \in DOMAIN r.Properties.CharacterFrequencyMap

\* The stored records.
Records == {store[h] : h \in DOMAIN store}

\* C7: matchesFilters accepts a record exactly when every present predicate
\* holds for it, and a structured listing returns, once each, exactly the stored
\* records for which every present predicate holds (all of them when the filter
\* set is empty).
C7_FilterConjunction ==
    \A p \in Procs :
        /\ local[p].op = "list" =>
              \A r \in Records :
                  matchesFilters(r, local[p].params) <=> AllPresentHold(r, local[p].params)
        /\ (Answered(p, "list") /\ response[p].status = 200) =>
              /\ Range(response[p].data) =
                     {r \in Records : AllPresentHold(r, local[p].params)}
              /\ Len(response[p].data) = Cardinality(Range(response[p].data))
              /\ local[p].params = NoParams => Range(response[p].data) = Records

\* A listing with three present predicates, one of them an upper-case letter,
\* returned some records and left others out.
C7_Witness ==
    \E p \in Procs :
        /\ Answered(p, "list")
        /\ response[p].status = 200
        /\ local[p].params.IsPalindrome = Ptr(TRUE)
        /\ local[p].params.MinLength = Ptr(5)
        /\ local[p].params.ContainsCharacter = Ptr("L")
        /\ Len(response[p].data) = 1
        /\ response[p].data[1].Value = "Level"

\* Goroutine p serves a natural-language request whose query was translated.
Translated(p) == local[p].op = "nl" /\ response[p].error # "parse"

HasSingle(lq) == Contains(lq, "single word")
HasTwo(lq) == Contains(lq, "two word") \/ Contains(lq, "2 word")
HasThree(lq) == Contains(lq, "three word") \/ Contains(lq, "3 word")
HasFirstVowel(lq) == Contains(lq, "first vowel")
HasLastVowel(lq) == Contains(lq, "last vowel")

\* One of the nine patterns matches the lower-cased query.
AnyRuleMatches(lq) ==
    \/ HasSingle(lq)
    \/ HasTwo(lq)
    \/ HasThree(lq)
    \/ Contains(lq, "palindrom")
    \/ FindNumberAfter(lq, "longer than ") # Nil
    \/ FindNumberAfter(lq, "shorter than ") # Nil
    \/ FindCharPattern(lq) # Nil
    \/ HasFirstVowel(lq)
    \/ HasLastVowel(lq)

\* C9: a natural-language request ends in the parse error exactly when none of
\* the nine patterns matches its query; when one matches, the filter set is not
\* empty; on the parse error the answer is 400 without data, no filter was
\* applied, no record was visited and the store is as it was.
C9_ParseErrorIffNoMatch ==
    \A p \in Procs :
        local[p].op = "nl" =>
            /\ response[p].error = "parse" <=> ~AnyRuleMatches(ToLower(local[p].query))
            /\ AnyRuleMatches(ToLower(local[p].query)) => DOMAIN local[p].parsed # {}
            /\ response[p].error = "parse" =>
                  /\ pc[p] = "done"
                  /\ response[p].status = 400
                  /\ response[p].data = <<>>
                  /\ local[p].params = NoParams
                  /\ local[p].seen = {} /\ local[p].results = {}
                  /\ store = StoreAfter(<<"Level", "hello world">>)

\* A query ending in "with", which no pattern matches, was refused.
C9_Witness ==
    \E p \in Procs :
        /\ Answered(p, "nl")
        /\ local[p].query = "strings with"
        /\ response[p].status = 400
        /\ response[p].error = "parse"

\* C10: "strings containing letter z", and likewise "strings contains z", is
\* translated to the filter set {contains_character: "z"}.
C10_ContainingLetter ==
    \A p \in Procs :
        (local[p].op = "nl"
           /\ local[p].query \in {"strings containing letter z", "strings contains z"})
            => /\ response[p].error # "parse"
               /\ DOMAIN local[p].parsed = {"contains_character"}
               /\ local[p].parsed["contains_character"] = "z"

\* The digit run m, without leading zeros, is short enough to be read as a number
\* here (longer runs stand for numbers above any length a record can have).
IsSmallNumber(m) == Len(StripZeros(m)) <= 9

\* len > N for the number N written by the digit run m.
LengthExceeds(len, m) == IsSmallNumber(m) /\ len > DecimalValue(StripZeros(m), 0)

\* C11: a query with "longer than N" is translated to minLength = N + 1 for
\* every digit run N, also one above the machine integer range (then minLength
\* is above every number of nine digits), and the listing returns only records
\* longer than N: exactly those when this is the only filter.
C11_LongerThan ==
    \A p \in Procs :
        LET m == FindNumberAfter(ToLower(local[p].query), "longer than ")
            f == local[p].parsed
        IN  (Translated(p) /\ m # Nil) =>
                /\ "min_length" \in DOMAIN f
                /\ IsSmallNumber(m) => f["min_length"] = DecimalValue(StripZeros(m), 0) + 1
                /\ ~IsSmallNumber(m) => f["min_length"] > 999999999
                /\ (pc[p] = "done" /\ response[p].status = 200) =>
                      /\ \A r \in Range(response[p].data) :
                             LengthExceeds(r.Properties.Length, m)
                      /\ DOMAIN f = {"min_length"} =>
                             Range(response[p].data) =
                                 {r \in Records : LengthExceeds(r.Properties.Length, m)}

\* The white space characters (Unicode White_Space) among AnalyzedChars and
\* the other characters of the model's strings.
IsWhitespace(c) == c \in {" ", "\t", "\n", "\f", "\r", VerticalTab}

RECURSIVE StripWhitespace(_)
StripWhitespace(s) ==
    IF s = "" THEN ""
    ELSE IF IsWhitespace(CharAt(s, 1)) THEN StripWhitespace(Tail(s))
    ELSE CharAt(s, 1) \o StripWhitespace(Tail(s))

\* s reads the same in both directions.
EqualsReverse(s) == \A i \in 1..Len(s) : CharAt(s, i) = CharAt(s, Len(s) + 1 - i)

\* C12: isPalindrome of a string is true exactly when the string, with every
\* white space character removed and case-folded, equals its own reverse; a
\* string that is empty after stripping is a palindrome.
C12_PalindromeDefinition ==
    \A p \in Procs :
        Answered(p, "analyze") =>
            LET folded == ToLower(StripWhitespace(local[p].value))
            IN  /\ response[p].data[1].IsPalindrome <=> EqualsReverse(folded)
                /\ folded = "" => response[p].data[1].IsPalindrome

\* Goroutine p performs the store write of createString in this step.
Inserts(p) == pc[p] = "create_store" /\ pc'[p] = "done"

\* C13: of two createString requests for the same value that is not stored and
\* that are handled together, one is answered 201 and the other 409: a request
\* that writes the store is the only one about to write that key, the key is
\* not stored when it writes, and no stored record's createdAt is replaced.
C13_OneInsertWins ==
    [][\A p \in Procs :
          Inserts(p) =>
              /\ response'[p].status = 201
              /\ \A q \in Procs \ {p} :
                     ~(pc[q] = "create_store" /\ local[q].hash = local[p].hash)
              /\ local[p].hash \notin DOMAIN store
              /\ \A h \in DOMAIN store : store'[h].CreatedAt = store[h].CreatedAt]_vars

=============================================================================
